---- MODULE Spec2Model ----
(***************************************************************************)
(* State-machine model of the OKX futures trading bot                      *)
(* (src/okx_futures_bot.py), the strategy it drives                        *)
(* (src/strategies/enhanced_strategy.py), the predictor                    *)
(* (src/strategies/prediction_models.py) and the control surface that      *)
(* writes the shared store (src/api/services/trading_service.py).          *)
(*                                                                         *)
(* Numbers are exact decimals held as integers:                            *)
(*   technical signals        -1, 0, 1                                     *)
(*   technical score          units of 0.01                                *)
(*   confidence, ml weight    units of 0.1                                 *)
(*   combined score           units of 0.001                               *)
(*   strength                 units of 0.00001                             *)
(*   prediction value         units of 0.0001                              *)
(***************************************************************************)
EXTENDS Integers, Sequences, FiniteSets, TLC

(***************************************************************************)
(* Bounds of the model.                                                    *)
(***************************************************************************)
\* how many of the configured instruments the model runs
NumSymbols == 2
\* how many RUNNING cycles the loop may start
MaxCycles == 2
\* how many times the strategies are called when they are run on their own
MaxCalls == 3

(***************************************************************************)
(* Program constants.                                                      *)
(***************************************************************************)
AllSymbols == <<"BTC-USDT-SWAP", "ETH-USDT-SWAP", "BNB-USDT-SWAP",
                "ADA-USDT-SWAP", "SOL-USDT-SWAP">>
symbols == SubSeq(AllSymbols, 1, NumSymbols)
Symbols == {symbols[i] : i \in 1..NumSymbols}

leverage == 10
\* RISK_PER_TRADE, in percent (0.05)
risk_per_trade == 5
\* signal thresholds of combine_signals (0.3), combined-score units
score_threshold == 300
\* cap of the ML weight (0.8), confidence units
ml_weight_cap == 8
\* signal_decay (0.95), in percent
signal_decay == 95
\* minimum strength kept by generate_signal (0.4), strength units
min_filter_strength == 40000
\* min_prediction_threshold (0.001), prediction units
min_prediction_threshold == 10
\* capacity of signal_history
history_cap == 100
\* STOP_LOSS_PCT and TAKE_PROFIT_PCT, in percent (0.02, 0.04)
stop_loss_pct == 2
take_profit_pct == 4

Abs(x) == IF x < 0 THEN -x ELSE x
Min(a, b) == IF a < b THEN a ELSE b
Sign(x) == IF x > 0 THEN 1 ELSE IF x < 0 THEN -1 ELSE 0

(***************************************************************************)
(* Inputs the environment supplies, drawn from small sets.                 *)
(***************************************************************************)
\* raw content of the store key trading:status
StatusRaw == {"absent", "garbage", "running", "paused", "stopped",
              "emergency_stopped"}
StatusValues == {"running", "paused", "stopped", "emergency_stopped"}
\* raw content of the store key trading:settings: whether it holds a JSON
\* record, and the auto_trading and leverage entries of the record
SettingsRaw == {[kind |-> "absent", auto |-> "missing", leverage |-> 0],
                [kind |-> "json", auto |-> "missing", leverage |-> 10],
                [kind |-> "json", auto |-> "true", leverage |-> 10],
                [kind |-> "json", auto |-> "false", leverage |-> 10]}
\* MIN_SIGNAL_STRENGTH values of the environment: the default 0.3; 0.76,
\* which a decayed strength of 0.8 * 0.95 meets exactly; and 1.5, which is
\* no fraction
MinStrengthInputs == {30000, 76000, 150000}
\* answers of market_api.get_candles as _get_market_data sees them
FetchOutcomes == {"ok", "error_code", "exception", "empty_data"}
\* how _generate_signal ends: normally, with the strategy raising, or with
\* the ticker lookup raising after the strategy has run
GenOutcomes == {"ok", "strategy_raise", "ticker_raise"}
\* technical signal vectors the Feature Engine may report
Sig(e, r, b, m, v, mo) ==
  [ema_signal |-> e, rsi_signal |-> r, bb_signal |-> b, macd_signal |-> m,
   volume_signal |-> v, momentum_signal |-> mo]
TechInputs == {Sig(0, 0, 0, 0, 0, 0)}
\* (value, confidence) pairs a trained predictor may return
PredInputs == {[value |-> 100, conf |-> 8], [value |-> -100, conf |-> 8],
               [value |-> 5, conf |-> 8]}
\* what stands for the predictor's answer when no predictor is asked
NoPrediction == [value |-> 0, conf |-> 0]
\* inputs of a strategy that is called on its own: technical scores of 0,
\* 0.3, -0.3, 0.5 and -0.5, and predictions that put the combined score of
\* neutral technical signals at 0.8, -0.8 and 0.4.  The scores are held as
\* exact decimals; the vectors are those whose sums in binary floating
\* point fall on the same side of every threshold as the decimals do.
FusionTech == {Sig(0, 0, 0, 0, 0, 0), Sig(1, 0, 0, 0, 0, 0), Sig(-1, 0, 0, 0, 0, 0),
               Sig(1, 1, 0, 0, 0, 0), Sig(-1, -1, 0, 0, 0, 0)}
FusionPreds == {[value |-> 100, conf |-> 8], [value |-> -100, conf |-> 8],
                [value |-> 5, conf |-> 8], [value |-> 100, conf |-> 4]}
\* how many decisions, all NONE, a strategy has already taken when the
\* calls start
PriorDecisions == {0, history_cap - 1}
\* bar windows a strategy is called on: flat ones (every close 100, every
\* volume 7 or 0), rising ones, each with or without bars that hold a
\* field that is no number
FlatWindow(n, v) == [i \in 1..n |-> [close |-> 100, volume |-> v, numeric |-> TRUE]]
RisingWindow(n) == [i \in 1..n |-> [close |-> 100 + i, volume |-> 7, numeric |-> TRUE]]
WithGaps(w, gaps) == [i \in 1..Len(w) |-> [w[i] EXCEPT !.numeric = i \notin gaps]]
BarWindows ==
  {FlatWindow(0, 7), FlatWindow(20, 7), FlatWindow(21, 7), FlatWindow(50, 7),
   FlatWindow(50, 0), RisingWindow(20), RisingWindow(21), RisingWindow(50),
   WithGaps(RisingWindow(22), {3, 10}), WithGaps(RisingWindow(22), {22}),
   WithGaps(FlatWindow(50, 7), {1, 50})}
\* indicator values the library may compute on a window that is not flat:
\* all six signals bullish, all bearish, none, and none with no RSI yet
LibIndicators ==
  {[prev_ema9 |-> 9, prev_ema21 |-> 10, curr_ema9 |-> 11, curr_ema21 |-> 10,
    rsi_nan |-> FALSE, rsi |-> 20, price |-> 100, bb_upper |-> 120,
    bb_lower |-> 100, prev_hist |-> -1, curr_hist |-> 1, volume |-> 20,
    avg_volume |-> 10, price_change_1 |-> 20],
   [prev_ema9 |-> 11, prev_ema21 |-> 10, curr_ema9 |-> 9, curr_ema21 |-> 10,
    rsi_nan |-> FALSE, rsi |-> 80, price |-> 120, bb_upper |-> 120,
    bb_lower |-> 100, prev_hist |-> 1, curr_hist |-> -1, volume |-> 4,
    avg_volume |-> 10, price_change_1 |-> -20],
   [prev_ema9 |-> 10, prev_ema21 |-> 10, curr_ema9 |-> 10, curr_ema21 |-> 10,
    rsi_nan |-> FALSE, rsi |-> 50, price |-> 110, bb_upper |-> 120,
    bb_lower |-> 100, prev_hist |-> 1, curr_hist |-> 1, volume |-> 10,
    avg_volume |-> 10, price_change_1 |-> 0],
   [prev_ema9 |-> 10, prev_ema21 |-> 10, curr_ema9 |-> 10, curr_ema21 |-> 10,
    rsi_nan |-> TRUE, rsi |-> 0, price |-> 110, bb_upper |-> 120,
    bb_lower |-> 100, prev_hist |-> 1, curr_hist |-> 1, volume |-> 10,
    avg_volume |-> 10, price_change_1 |-> 0]}
\* what the library's RSI is where no close ever changed
FlatRsiOutcomes == {"nan", "100"}
\* last close of the fetched window
Prices == {10}
\* available USDT balance; 0 also stands for a failed balance read
Balances == {0, 200}
\* answers of trade_api.set_order to an entry order of size sz; the
\* exchange accepts no order of size 0
EntryResults(sz) ==
  IF sz > 0 THEN {"ok", "ok_nodata", "rejected", "raise"} ELSE {"rejected", "raise"}
\* answers of trade_api.set_order to a bracket or close order
OrderResults == {"ok", "rejected", "raise"}

VARIABLES
  statusKey,        \* store key trading:status
  settingsKey,      \* store key trading:settings
  min_signal_strength, \* bot.min_signal_strength
  pc,               \* where the bot process is
  idx,              \* index into symbols of the instrument processed next
  cycles,           \* RUNNING cycles started so far
  trading_status,   \* run(): value read at the top of the iteration
  auto_trading_enabled, \* run(): value read at the top of the iteration
  trained,          \* per strategy: predictor attached and trained
  signal_history,   \* per strategy: signal_history
  positions,        \* bot.positions, a dict in insertion order
  predictor,        \* a PricePredictor on its own
  calls,            \* calls made to strategies that are run on their own
  predictors,       \* bot.predictors, a dict from instrument to PricePredictor
  requests,         \* update_trading_settings calls in flight
  last              \* what the last step did

vars == <<statusKey, settingsKey, min_signal_strength, pc, idx, cycles,
          trading_status, auto_trading_enabled, trained, signal_history,
          positions, predictor, calls, predictors, requests, last>>

(***************************************************************************)
(* EnhancedStrategy: signal fusion.                                        *)
(***************************************************************************)
technical_weights == Sig(30, 20, 15, 15, 10, 10)
SignalNames == DOMAIN technical_weights

RECURSIVE SumOver(_, _)
SumOver(f, S) ==
  IF S = {} THEN 0
  ELSE LET k == CHOOSE x \in S : TRUE IN f[k] + SumOver(f, S \ {k})

\* technical_score of combine_signals, units of 0.01
TechnicalScore(ts) ==
  SumOver([k \in SignalNames |-> ts[k] * technical_weights[k]], SignalNames)

\* ml_weight of combine_signals, units of 0.1
MlWeight(conf) == Min(conf, ml_weight_cap)

\* combined_score of combine_signals, units of 0.001
CombinedScore(ts, pred, conf) ==
  TechnicalScore(ts) * (10 - MlWeight(conf)) + Sign(pred) * MlWeight(conf) * 100

\* mutant: a score equal to the threshold gives a signal
ThresholdSignal_AtLeast(c) ==
  IF c >= score_threshold THEN "BUY"
  ELSE IF c <= -score_threshold THEN "SELL"
  ELSE "NONE"

\* the signal combine_signals derives from the combined score
ThresholdSignal(c) ==
  IF c > score_threshold THEN "BUY"
  ELSE IF c < -score_threshold THEN "SELL"
  ELSE "NONE"

\* the strength before decay, in percent of the strength unit
ThresholdStrength(c) ==
  IF ThresholdSignal(c) = "NONE" THEN 0 ELSE Min(Abs(c), 1000)

\* mutant: any earlier entry with the same signal decays the strength
Decays_AnyEarlier(hist, signal) ==
  \E i \in 1..Len(hist) : hist[i].signal = signal

\* whether combine_signals decays the strength
Decays(hist, signal) ==
  /\ Len(hist) > 0
  /\ hist[Len(hist)].signal = signal

\* mutant: a full history keeps its oldest entries
Remember_KeepOldest(hist, entry) ==
  LET h == Append(hist, entry) IN
  IF Len(h) > history_cap THEN SubSeq(h, 1, history_cap) ELSE h

\* signal_history after one more entry
Remember(hist, entry) ==
  LET h == Append(hist, entry) IN
  IF Len(h) > history_cap THEN SubSeq(h, Len(h) - history_cap + 1, Len(h)) ELSE h

\* combine_signals: the signal, its strength and the history it leaves
combine_signals(hist, ts, pred, conf) ==
  LET c == CombinedScore(ts, pred, conf)
      signal == ThresholdSignal(c)
      strength == ThresholdStrength(c) *
                  (IF Decays(hist, signal) THEN signal_decay ELSE 100)
      entry == [signal |-> signal, strength |-> strength]
  IN [signal |-> signal, strength |-> strength, history |-> Remember(hist, entry)]

\* get_ml_prediction: what the strategy's own predictor gives
get_ml_prediction(isTrained, out) ==
  IF ~isTrained THEN [value |-> 0, conf |-> 0] ELSE out

\* mutant: only the weak prediction drops the signal
Filtered_PredictionOnly(strength, pred) ==
  Abs(pred) < min_prediction_threshold

\* whether generate_signal's additional filters drop the signal
Filtered(strength, pred) ==
  \/ strength < min_filter_strength
  \/ Abs(pred) < min_prediction_threshold

\* generate_signal
generate_signal(hist, ts, isTrained, out) ==
  LET ml == get_ml_prediction(isTrained, out)
      c == combine_signals(hist, ts, ml.value, ml.conf)
      drop == c.signal # "NONE" /\ Filtered(c.strength, ml.value)
  IN [signal |-> IF drop THEN "NONE" ELSE c.signal,
      strength |-> IF drop THEN 0 ELSE c.strength,
      history |-> c.history]

(***************************************************************************)
(* EnhancedStrategy: the technical signals of a bar window.                *)
(* A window is a sequence of bars; numeric says whether every field of the *)
(* bar is a number once pd.to_numeric has coerced it.  Closes and volumes  *)
(* are whole numbers, whose rolling sums are exact in floating point.      *)
(***************************************************************************)
\* bars calculate_technical_signals needs before it computes anything
min_bars == 21

Bar(c, v, numeric) == [close |-> c, volume |-> v, numeric |-> numeric]
IsNumeric(b) == b.numeric

\* df.dropna() after the coercion
dropna(df) == SelectSeq(df, IsNumeric)

\* mutant: one bar fewer is enough
TooShort_Twenty(df) == Len(df) < min_bars - 1

\* the window is too short for the indicators
TooShort(df) == Len(df) < min_bars

\* every bar has the close and the volume of the first
IsFlat(df) ==
  \A i \in 1..Len(df) : df[i].close = df[1].close /\ df[i].volume = df[1].volume

\* what the indicator library computes on the last bars of a window:
\* EMA9 and EMA21 of the last two bars, RSI14 (or no number), the last
\* close and its Bollinger bands, the last two MACD histograms, the last
\* volume and its 20-bar mean, the last one-bar price change in units of
\* 0.001
Indicators(p9, p21, c9, c21, rsiNan, rsi, price, upper, lower, ph, ch, vol, avg, chg) ==
  [prev_ema9 |-> p9, prev_ema21 |-> p21, curr_ema9 |-> c9, curr_ema21 |-> c21,
   rsi_nan |-> rsiNan, rsi |-> rsi, price |-> price, bb_upper |-> upper,
   bb_lower |-> lower, prev_hist |-> ph, curr_hist |-> ch, volume |-> vol,
   avg_volume |-> avg, price_change_1 |-> chg]

\* the indicators of a flat window: every average is the one close or the
\* one volume, the bands have width 0, nothing changes; flatRsi is what the
\* library makes of an average gain and an average loss that are both 0:
\* no number, or 100
FlatIndicators(df, flatRsi) ==
  LET c == df[1].close
      v == df[1].volume
  IN Indicators(c, c, c, c, flatRsi = "nan", 100, c, c, c, 0, 0, v, v, 0)

\* the indicators of a window: lib is what the library computes when the
\* window is not flat
IndicatorsOf(df, lib, flatRsi) ==
  IF IsFlat(df) THEN FlatIndicators(df, flatRsi) ELSE lib

\* the Bollinger-band signal
bb_signal(ind) ==
  IF ind.price <= ind.bb_lower THEN 1
  ELSE IF ind.price >= ind.bb_upper THEN -1 ELSE 0

\* the six signals calculate_technical_signals derives from the indicators
SignalsOf(ind) ==
  Sig(IF ind.prev_ema9 < ind.prev_ema21 /\ ind.curr_ema9 > ind.curr_ema21 THEN 1
      ELSE IF ind.prev_ema9 > ind.prev_ema21 /\ ind.curr_ema9 < ind.curr_ema21
      THEN -1 ELSE 0,
      IF ind.rsi_nan THEN 0
      ELSE IF ind.rsi < 30 THEN 1 ELSE IF ind.rsi > 70 THEN -1 ELSE 0,
      bb_signal(ind),
      IF ind.curr_hist > 0 /\ ind.prev_hist <= 0 THEN 1
      ELSE IF ind.curr_hist < 0 /\ ind.prev_hist >= 0 THEN -1 ELSE 0,
      IF 2 * ind.volume > 3 * ind.avg_volume THEN 1
      ELSE IF 2 * ind.volume < ind.avg_volume THEN -1 ELSE 0,
      IF ind.price_change_1 > 10 THEN 1
      ELSE IF ind.price_change_1 < -10 THEN -1 ELSE 0)

\* calculate_technical_signals
calculate_technical_signals(window, lib, flatRsi) ==
  LET df == dropna(window)
  IN IF TooShort(df) THEN Sig(0, 0, 0, 0, 0, 0)
     ELSE SignalsOf(IndicatorsOf(df, lib, flatRsi))

(***************************************************************************)
(* PricePredictor: the prediction adapter.                                 *)
(***************************************************************************)
\* columns create_features adds to a window, three standing for the 34
CreatedColumns == {"price_change", "rsi_14", "hour"}
\* the feature list prepare_features and predict fall back to
DefaultFeatureColumns == <<"price_change", "rsi_14", "hour">>
\* what a model file may hold: the bundle save_model writes, with a feature
\* list create_features covers in full, in part or not at all, or the
\* original format, a bare model
Bundle(cols, type) ==
  [format |-> "bundle", feature_columns |-> cols, model_type |-> type]
ModelTypes == {"random_forest", "gradient_boosting"}
FeatureLists ==
  {DefaultFeatureColumns,
   <<"price_change", "rsi_14">>,
   <<"hour">>,
   <<"price_change", "funding_rate", "hour">>,
   <<"price_change", "rsi_14", "hour", "funding_rate">>,
   <<"funding_rate", "hour">>,
   <<"funding_rate">>}
Artifacts ==
  {Bundle(cols, type) : cols \in FeatureLists, type \in ModelTypes}
    \cup {[format |-> "model_only", feature_columns |-> <<>>,
           model_type |-> "unknown"]}
NoArtifact == [format |-> "none", feature_columns |-> <<>>, model_type |-> "none"]
\* bar windows: the column that holds the bar time, and whether rows are
\* left once the features are computed and incomplete rows dropped
Windows == [time_column : {"open_time", "timestamp"}, rows : {"enough", "short"}]
\* how model.predict ends
InferOutcomes == {"ok", "raise"}

\* PricePredictor.__init__; artifact is the file load_model read
PricePredictor ==
  [model_type |-> "random_forest", model |-> "none",
   scaler |-> [kind |-> "unfitted", n |-> 0],
   is_trained |-> FALSE, feature_columns |-> <<>>, artifact |-> NoArtifact]

\* load_model
load_model(p, a) ==
  IF a.format = "bundle"
  THEN [model_type |-> a.model_type, model |-> "loaded",
        scaler |-> [kind |-> "fitted", n |-> Len(a.feature_columns)],
        is_trained |-> TRUE, feature_columns |-> a.feature_columns,
        artifact |-> a]
  ELSE [model_type |-> "unknown", model |-> "loaded",
        scaler |-> [kind |-> "none", n |-> 0],
        is_trained |-> TRUE, feature_columns |-> <<>>, artifact |-> a]

IsCreated(c) == c \in CreatedColumns
NotCreated(c) == c \notin CreatedColumns

\* create_features raises: the window has no open_time column
CreateFeaturesRaises(w) == w.time_column # "open_time"

\* scaler.transform raises: the scaler was fitted on another number of
\* columns, or never fitted
TransformRaises(scaler, cols) ==
  \/ scaler.kind = "unfitted"
  \/ scaler.kind = "fitted" /\ scaler.n # Len(cols)

\* predict: whether it raised, the pair it returned, the predictor it leaves
predict(p, w, infer, out) ==
  LET given == IF p.feature_columns = <<>> THEN DefaultFeatureColumns
               ELSE p.feature_columns
      available_features == SelectSeq(given, IsCreated)
      missing_features == SelectSeq(given, NotCreated)
      kept == IF missing_features # <<>> THEN available_features ELSE given
      q == [p EXCEPT !.feature_columns = kept]
  IN IF ~p.is_trained \/ CreateFeaturesRaises(w)
     THEN [raised |-> TRUE, pred |-> NoPrediction, predictor |-> p]
     ELSE IF w.rows = "short"
     THEN [raised |-> FALSE, pred |-> NoPrediction, predictor |-> p]
     ELSE IF available_features = <<>>
     THEN [raised |-> FALSE, pred |-> NoPrediction, predictor |-> q]
     ELSE IF TransformRaises(p.scaler, available_features)
     THEN [raised |-> TRUE, pred |-> NoPrediction, predictor |-> q]
     ELSE IF infer = "raise"
     THEN [raised |-> FALSE, pred |-> NoPrediction, predictor |-> q]
     ELSE [raised |-> FALSE, pred |-> out, predictor |-> q]

(***************************************************************************)
(* OKXFuturesBot: reads of the shared store.                               *)
(***************************************************************************)
\* mutant: a failed read is taken for running
get_trading_status_AssumeRunning(up, raw) ==
  IF ~up \/ raw \in {"absent", "garbage"} THEN "running" ELSE raw

\* _get_trading_status: up is whether the store answered
get_trading_status(up, raw) ==
  IF ~up \/ raw \in {"absent", "garbage"} THEN "stopped" ELSE raw

\* mutant: settings that cannot be read disable auto trading
get_auto_trading_status_FailClosed(up, raw) ==
  IF ~up \/ raw.kind # "json" THEN FALSE ELSE raw.auto = "true"

\* _get_auto_trading_status
get_auto_trading_status(up, raw) ==
  IF ~up \/ raw.kind # "json" THEN TRUE ELSE raw.auto # "false"

\* mutant: only stopped makes the iteration wait
ShouldWait_OnlyStopped(status) == status = "stopped"

\* run(): the iteration waits instead of trading
ShouldWait(status) == status # "running"

(***************************************************************************)
(* OKXFuturesBot: positions and orders.                                    *)
(***************************************************************************)
HasPosition(pos, sym) == \E i \in 1..Len(pos) : pos[i].symbol = sym
PositionOf(pos, sym) == pos[CHOOSE i \in 1..Len(pos) : pos[i].symbol = sym]

\* positions[symbol] = rec on a dict kept in insertion order
DictSet(pos, rec) ==
  IF HasPosition(pos, rec.symbol)
  THEN [i \in 1..Len(pos) |-> IF pos[i].symbol = rec.symbol THEN rec ELSE pos[i]]
  ELSE Append(pos, rec)

Opposite(side) == IF side = "buy" THEN "sell" ELSE "buy"

Order(kind, sym, side, ordType, sz, px, res) ==
  [kind |-> kind, instId |-> sym, side |-> side, ordType |-> ordType,
   sz |-> sz, px |-> px, res |-> res]

\* quantity of _execute_trade
Quantity(balance, price) ==
  (balance * risk_per_trade * leverage) \div (100 * price)

\* mutant: a failed bracket leg is answered by closing the position
place_stop_orders_Unwind(sym, side, entry_price, quantity, slRes, tpRes) ==
  LET sl == Order("stop_loss", sym, Opposite(side), "conditional", quantity,
              entry_price * 100, slRes)
      tp == Order("take_profit", sym, Opposite(side), "conditional", quantity,
              entry_price * 100, tpRes)
      close == Order("close", sym, Opposite(side), "market", quantity, 0, "ok")
  IN IF slRes # "ok" THEN <<sl, close>>
     ELSE IF tpRes # "ok" THEN <<sl, tp, close>>
     ELSE <<sl, tp>>

\* _place_stop_orders: the orders it submits, prices in units of 0.01
place_stop_orders(sym, side, entry_price, quantity, slRes, tpRes) ==
  LET stop_price == IF side = "buy" THEN entry_price * (100 - stop_loss_pct)
                    ELSE entry_price * (100 + stop_loss_pct)
      take_profit_price == IF side = "buy" THEN entry_price * (100 + take_profit_pct)
                           ELSE entry_price * (100 - take_profit_pct)
      sl == Order("stop_loss", sym, Opposite(side), "conditional", quantity,
                  stop_price, slRes)
      tp == Order("take_profit", sym, Opposite(side), "conditional", quantity,
                  take_profit_price, tpRes)
  IN IF slRes = "raise" THEN <<sl>> ELSE <<sl, tp>>

\* mutant: no duplicate-entry guard
AlreadyTracked_Never(pos, sym) == FALSE

\* _execute_trade: the duplicate-entry guard
AlreadyTracked(pos, sym) == HasPosition(pos, sym)

\* mutant: every entry answer is taken for a success
EntryCodeOk_Always(res) == TRUE

\* _execute_trade: the entry answer carries the success code
EntryCodeOk(res) == res \in {"ok", "ok_nodata"}

\* _execute_trade: the entry answer lists the order, so that reading its
\* ordId does not raise
HasOrderData(res) == res # "ok_nodata"

\* _execute_trade: positions and submitted orders it leaves
execute_trade(pos, sym, signal, price, strength, balance, entryRes, slRes, tpRes) ==
  IF AlreadyTracked(pos, sym) THEN [positions |-> pos, orders |-> <<>>]
  ELSE
    LET side == IF signal = "BUY" THEN "buy" ELSE "sell"
        quantity == Quantity(balance, price)
        entry == Order("entry", sym, side, "market", quantity, 0, entryRes)
        rec == [symbol |-> sym, side |-> side, entry_price |-> price,
                quantity |-> quantity, signal_strength |-> strength]
    IN IF EntryCodeOk(entryRes) /\ HasOrderData(entryRes)
       THEN [positions |-> DictSet(pos, rec),
             orders |-> <<entry>> \o
                        place_stop_orders(sym, side, price, quantity, slRes, tpRes)]
       ELSE [positions |-> pos, orders |-> <<entry>>]

\* a record written to the log: its level, what it reports, the instrument
Log(level, event, sym) == [level |-> level, event |-> event, sym |-> sym]

\* _place_stop_orders: the records it logs; the answers of the exchange are
\* not looked at, so that a leg is logged as placed unless set_order raised
place_stop_orders_logs(sym, slRes, tpRes) ==
  IF slRes = "raise" THEN <<Log("error", "stop_orders_failed", sym)>>
  ELSE IF tpRes = "raise"
  THEN <<Log("info", "stop_loss_placed", sym),
         Log("error", "stop_orders_failed", sym)>>
  ELSE <<Log("info", "stop_loss_placed", sym),
         Log("info", "take_profit_placed", sym)>>

\* _execute_trade: the records it logs; an answer with another code than
\* success reaches no logging statement
execute_trade_logs(pos, sym, entryRes, slRes, tpRes) ==
  IF AlreadyTracked(pos, sym) THEN <<Log("info", "already_have_position", sym)>>
  ELSE IF entryRes = "raise" THEN <<Log("error", "execute_trade_failed", sym)>>
  ELSE IF ~EntryCodeOk(entryRes) THEN <<>>
  ELSE IF ~HasOrderData(entryRes) THEN <<Log("error", "execute_trade_failed", sym)>>
  ELSE <<Log("info", "entry_placed", sym)>> \o place_stop_orders_logs(sym, slRes, tpRes)

\* run(): the records the loop body logs around the entry gate
run_logs(gate, auto, sym) ==
  IF ~gate THEN <<>>
  ELSE IF auto THEN <<Log("info", "executing_trade", sym)>>
  ELSE <<Log("info", "signal_auto_trading_disabled", sym)>>

\* stop(): the close orders, one per tracked position, res[i] the answer
StopOrders(pos, res) ==
  [i \in 1..Len(pos) |->
     Order("close", pos[i].symbol, Opposite(pos[i].side), "market",
           pos[i].quantity, 0, res[i])]

\* stop(): the positions it leaves tracked
StopPositions(pos) == pos

\* mutant: a strength equal to the minimum passes
EntryGate_AtLeast(signal, strength, minStrength) ==
  signal # "NONE" /\ strength >= minStrength

\* run(): the entry gate
EntryGate(signal, strength, minStrength) ==
  signal # "NONE" /\ strength > minStrength

(***************************************************************************)
(* The record of what the bot's last step did.                             *)
(***************************************************************************)
NoStep ==
  [op |-> "none", status |-> "none", statusRead |-> FALSE, autoRead |-> FALSE,
   sym |-> "none",
   fetch |-> "none", gen |-> "none", signal |-> "NONE", strength |-> 0,
   price |-> 0, called |-> FALSE, hadPosition |-> FALSE, orders |-> <<>>,
   raised |-> FALSE, logs |-> <<>>,
   \* of a call of generate_signal on its own: the inputs, the combined
   \* score, what combine_signals returned, and the signal the call before
   \* it returned for the same strategy
   tech |-> Sig(0, 0, 0, 0, 0, 0), pred |-> NoPrediction, combined |-> 0,
   raw |-> [signal |-> "NONE", strength |-> 0], prev |-> "unknown",
   \* of a call of predict: the window
   window |-> [time_column |-> "none", rows |-> "none"],
   \* of a call of generate_signal on a bar window: the window
   bars |-> <<>>]

(***************************************************************************)
(* Initial state: the bot constructed, the store holding anything.         *)
(***************************************************************************)
Init ==
  /\ statusKey \in StatusRaw
  /\ settingsKey \in SettingsRaw
  /\ min_signal_strength \in MinStrengthInputs
  /\ pc = "init"
  /\ idx = 0
  /\ cycles = 0
  /\ trading_status = "none"
  /\ auto_trading_enabled = FALSE
  /\ trained = [s \in Symbols |-> FALSE]
  /\ signal_history = [s \in Symbols |-> <<>>]
  /\ positions = <<>>
  /\ predictor = PricePredictor
  /\ calls = 0
  /\ predictors = <<>>
  /\ requests = <<>>
  /\ last = NoStep

storeVars == <<statusKey, settingsKey>>
botVars == <<min_signal_strength, pc, idx, cycles, trading_status,
             auto_trading_enabled, trained, signal_history, positions,
             predictor, calls, predictors, requests, last>>

(***************************************************************************)
(* Control surface (TradingService).                                       *)
(***************************************************************************)
\* the record get_trading_settings writes when the key is missing
DefaultSettings == [kind |-> "json", auto |-> "true", leverage |-> 10]

\* get_trading_settings: the record it returns
get_trading_settings(raw) == IF raw.kind = "json" THEN raw ELSE DefaultSettings

\* set_trading_status, called by start/stop/pause/emergency_stop
SetTradingStatus(s) ==
  /\ statusKey # s
  /\ statusKey' = s
  /\ UNCHANGED <<settingsKey, botVars>>

\* get_trading_status: a missing key is replaced by the default record
ApiGetTradingStatus ==
  /\ statusKey = "absent"
  /\ statusKey' = "stopped"
  /\ UNCHANGED <<settingsKey, botVars>>

\* get_trading_settings: a missing key is replaced by the default record
ApiGetTradingSettings ==
  /\ settingsKey.kind = "absent"
  /\ settingsKey' = get_trading_settings(settingsKey)
  /\ UNCHANGED <<statusKey, botVars>>

\* update_trading_settings({"auto_trading": b}), served on its own: the
\* record is read, updated and written back
UpdateTradingSettings(b) ==
  /\ settingsKey' = [get_trading_settings(settingsKey) EXCEPT
                       !.auto = IF b THEN "true" ELSE "false"]
  /\ settingsKey' # settingsKey
  /\ UNCHANGED <<statusKey, botVars>>

(***************************************************************************)
(* Strategy set-up.                                                        *)
(***************************************************************************)
\* EnhancedStrategy.train_model: the strategy gets a trained predictor
TrainModel(s) ==
  /\ pc = "init"
  /\ ~trained[s]
  /\ trained' = [trained EXCEPT ![s] = TRUE]
  /\ UNCHANGED <<storeVars, min_signal_strength, pc, idx, cycles, trading_status,
                 auto_trading_enabled, signal_history, positions, predictor,
                 calls, predictors, requests, last>>

(***************************************************************************)
(* The bot process.                                                        *)
(***************************************************************************)
\* initialize(): the connection test passes or fails; main() runs or returns;
\* the models directory holds no model file, so that bot.predictors stays
\* empty
Initialize ==
  /\ pc = "init"
  /\ \E ok \in BOOLEAN : pc' = IF ok THEN "top" ELSE "failed"
  /\ last' = [NoStep EXCEPT !.op = "initialize"]
  /\ UNCHANGED <<storeVars, min_signal_strength, idx, cycles, trading_status,
                 auto_trading_enabled, trained, signal_history, positions,
                 predictor, calls,
                 predictors, requests>>

\* run(): the top of one iteration, up to the first instrument or the wait
LoopTop ==
  /\ pc = "top"
  /\ \E upS \in BOOLEAN, upA \in BOOLEAN :
       LET status == get_trading_status(upS, statusKey)
           auto == get_auto_trading_status(upA, settingsKey)
           readOk == upS /\ statusKey \notin {"absent", "garbage"}
           autoOk == upA /\ settingsKey.kind = "json" /\ settingsKey.auto # "missing"
       IN /\ trading_status' = status
          /\ auto_trading_enabled' = auto
          /\ last' = [NoStep EXCEPT !.op = "top", !.status = status,
                                    !.statusRead = readOk, !.autoRead = autoOk]
          /\ IF ShouldWait(status)
             THEN /\ pc' = "top"
                  /\ UNCHANGED <<idx, cycles>>
             ELSE /\ cycles < MaxCycles
                  /\ pc' = "cycle"
                  /\ idx' = 1
                  /\ cycles' = cycles + 1
  /\ UNCHANGED <<storeVars, min_signal_strength, trained, signal_history,
                 positions, predictor, calls,
                 predictors, requests>>

\* run(): the for loop moves on to the next instrument, or the cycle ends
NextInstrument ==
  IF idx < NumSymbols
  THEN pc' = "cycle" /\ idx' = idx + 1
  ELSE pc' = "top" /\ idx' = idx + 1

\* run(): the body of the for loop for symbols[idx]
ProcessSymbol ==
  /\ pc = "cycle"
  /\ LET sym == symbols[idx]
         step == [NoStep EXCEPT !.op = "process", !.sym = sym,
                                !.hadPosition = HasPosition(positions, sym)]
     IN \E fetch \in FetchOutcomes :
        CASE fetch = "empty_data" ->
               \* _get_market_data returns None; df.empty raises; the handler
               \* of the while loop waits and starts the next iteration
               /\ pc' = "top"
               /\ last' = [step EXCEPT !.fetch = fetch, !.raised = TRUE]
               /\ UNCHANGED <<idx, signal_history, positions>>
          [] fetch \in {"error_code", "exception"} ->
               /\ NextInstrument
               /\ last' = [step EXCEPT !.fetch = fetch]
               /\ UNCHANGED <<signal_history, positions>>
          [] fetch = "ok" ->
               \E gen \in GenOutcomes, ts \in TechInputs,
                  out \in (IF trained[sym] THEN PredInputs ELSE {NoPrediction}) :
                 LET g == generate_signal(signal_history[sym], ts, trained[sym], out)
                     signal == IF gen = "ok" THEN g.signal ELSE "NONE"
                     strength == IF gen = "ok" THEN g.strength ELSE 0
                     hist == IF gen = "strategy_raise" THEN signal_history[sym]
                             ELSE g.history
                     call == /\ EntryGate(signal, strength, min_signal_strength)
                             /\ auto_trading_enabled
                     submits == call /\ ~AlreadyTracked(positions, sym)
                 IN \E price \in Prices,
                       balance \in (IF submits THEN Balances ELSE {0}) :
                    \E entryRes \in (IF submits
                                     THEN EntryResults(Quantity(balance, price))
                                     ELSE {"ok"}) :
                    \E slRes \in (IF submits /\ entryRes = "ok" THEN OrderResults
                                  ELSE {"ok"}) :
                    \E tpRes \in (IF submits /\ entryRes = "ok" /\ slRes # "raise"
                                  THEN OrderResults ELSE {"ok"}) :
                      LET t == IF call
                               THEN execute_trade(positions, sym, signal, price,
                                                  strength, balance, entryRes,
                                                  slRes, tpRes)
                               ELSE [positions |-> positions, orders |-> <<>>]
                      IN /\ signal_history' = [signal_history EXCEPT ![sym] = hist]
                         /\ positions' = t.positions
                         /\ NextInstrument
                         /\ last' = [step EXCEPT !.fetch = fetch, !.gen = gen,
                                       !.signal = signal, !.strength = strength,
                                       !.price = price, !.called = call,
                                       !.orders = t.orders,
                                       !.logs =
                                         run_logs(EntryGate(signal, strength,
                                                            min_signal_strength),
                                                  auto_trading_enabled, sym) \o
                                         (IF call
                                          THEN execute_trade_logs(positions, sym,
                                                 entryRes, slRes, tpRes)
                                          ELSE <<>>)]
  /\ UNCHANGED <<storeVars, min_signal_strength, cycles, trading_status,
                 auto_trading_enabled, trained, predictor, calls,
                 predictors, requests>>

\* main(): an interrupt, delivered while run() sleeps between two
\* iterations, ends run(); the finally clause calls stop()
Interrupt ==
  /\ pc = "top"
  /\ \E res \in [1..Len(positions) -> OrderResults] :
       /\ last' = [NoStep EXCEPT !.op = "stop", !.orders = StopOrders(positions, res)]
       /\ positions' = StopPositions(positions)
  /\ pc' = "stopped"
  \* run() has returned: its locals and its place in the symbol list are gone
  /\ idx' = 0
  /\ trading_status' = "none"
  /\ auto_trading_enabled' = FALSE
  /\ UNCHANGED <<storeVars, min_signal_strength, cycles, trained,
                 signal_history, predictor, calls, predictors, requests>>

\* the requests of the control surface, for as long as the bot process lives
ControlSurface ==
  /\ pc \in {"init", "top", "cycle"}
  /\ \/ \E s \in StatusValues : SetTradingStatus(s)
     \/ ApiGetTradingStatus
     \/ ApiGetTradingSettings
     \/ \E b \in BOOLEAN : UpdateTradingSettings(b)

Next ==
  \/ ControlSurface
  \/ \E s \in Symbols : TrainModel(s)
  \/ Initialize
  \/ LoopTop
  \/ ProcessSymbol
  \/ Interrupt

Spec == Init /\ [][Next]_vars

(***************************************************************************)
(* The strategies called on their own: generate_signal, once per call, on  *)
(* strategies with or without a trained predictor.                         *)
(***************************************************************************)
NoneHistory(n) == [i \in 1..n |-> [signal |-> "NONE", strength |-> 0]]

FusionInit ==
  /\ statusKey = "absent"
  /\ settingsKey = [kind |-> "absent", auto |-> "missing", leverage |-> 0]
  /\ min_signal_strength = 30000
  /\ pc = "init"
  /\ idx = 0
  /\ cycles = 0
  /\ trading_status = "none"
  /\ auto_trading_enabled = FALSE
  /\ trained \in [Symbols -> BOOLEAN]
  /\ \E n \in PriorDecisions : signal_history = [s \in Symbols |-> NoneHistory(n)]
  /\ positions = <<>>
  /\ predictor = PricePredictor
  /\ calls = 0
  /\ predictors = <<>>
  /\ requests = <<>>
  /\ last = NoStep

\* strategies[s].generate_signal(df)
FusionCall(s) ==
  /\ calls < MaxCalls
  /\ \E ts \in FusionTech,
        out \in (IF trained[s] THEN FusionPreds ELSE {NoPrediction}) :
       LET ml == get_ml_prediction(trained[s], out)
           c == combine_signals(signal_history[s], ts, ml.value, ml.conf)
           g == generate_signal(signal_history[s], ts, trained[s], out)
       IN /\ signal_history' = [signal_history EXCEPT ![s] = g.history]
          /\ last' = [NoStep EXCEPT
                        !.op = "fusion", !.sym = s, !.signal = g.signal,
                        !.strength = g.strength, !.tech = ts, !.pred = ml,
                        !.combined = CombinedScore(ts, ml.value, ml.conf),
                        !.raw = [signal |-> c.signal, strength |-> c.strength],
                        !.prev = IF last.op = "fusion" /\ last.sym = s
                                 THEN last.signal ELSE "unknown"]
  /\ calls' = calls + 1
  /\ UNCHANGED <<storeVars, min_signal_strength, pc, idx, cycles, trading_status,
                 auto_trading_enabled, trained, positions, predictor,
                 predictors, requests>>

FusionNext == \E s \in Symbols : FusionCall(s)

FusionSpec == FusionInit /\ [][FusionNext]_vars

(***************************************************************************)
(* The strategies called on bar windows: generate_signal, once per call,   *)
(* on strategies without a predictor, the technical signals computed from  *)
(* the window.                                                             *)
(***************************************************************************)
FeatureInit ==
  /\ statusKey = "absent"
  /\ settingsKey = [kind |-> "absent", auto |-> "missing", leverage |-> 0]
  /\ min_signal_strength = 30000
  /\ pc = "init"
  /\ idx = 0
  /\ cycles = 0
  /\ trading_status = "none"
  /\ auto_trading_enabled = FALSE
  /\ trained = [s \in Symbols |-> FALSE]
  /\ signal_history = [s \in Symbols |-> <<>>]
  /\ positions = <<>>
  /\ predictor = PricePredictor
  /\ calls = 0
  /\ predictors = <<>>
  /\ requests = <<>>
  /\ last = NoStep

\* strategies[s].generate_signal(df) on a bar window
FeatureCall(s) ==
  /\ calls < MaxCalls
  /\ \E w \in BarWindows :
       LET df == dropna(w)
           computed == ~TooShort(df)
       IN \E lib \in (IF computed /\ ~IsFlat(df) THEN LibIndicators
                      ELSE {FlatIndicators(FlatWindow(1, 0), "nan")}),
             flatRsi \in (IF computed /\ IsFlat(df) THEN FlatRsiOutcomes
                          ELSE {"nan"}) :
            LET ts == calculate_technical_signals(w, lib, flatRsi)
                ml == get_ml_prediction(trained[s], NoPrediction)
                c == combine_signals(signal_history[s], ts, ml.value, ml.conf)
                g == generate_signal(signal_history[s], ts, trained[s], NoPrediction)
            IN /\ signal_history' = [signal_history EXCEPT ![s] = g.history]
               /\ last' = [NoStep EXCEPT
                             !.op = "features", !.sym = s, !.bars = w,
                             !.signal = g.signal, !.strength = g.strength,
                             !.tech = ts, !.pred = ml,
                             !.combined = CombinedScore(ts, ml.value, ml.conf),
                             !.raw = [signal |-> c.signal, strength |-> c.strength]]
  /\ calls' = calls + 1
  /\ UNCHANGED <<storeVars, min_signal_strength, pc, idx, cycles, trading_status,
                 auto_trading_enabled, trained, positions, predictor,
                 predictors, requests>>

FeatureNext == \E s \in Symbols : FeatureCall(s)

FeatureSpec == FeatureInit /\ [][FeatureNext]_vars

(***************************************************************************)
(* A predictor on its own: a model file is loaded, then predict is called  *)
(* on bar windows.                                                         *)
(***************************************************************************)
PredictorInit ==
  /\ statusKey = "absent"
  /\ settingsKey = [kind |-> "absent", auto |-> "missing", leverage |-> 0]
  /\ min_signal_strength = 30000
  /\ pc = "init"
  /\ idx = 0
  /\ cycles = 0
  /\ trading_status = "none"
  /\ auto_trading_enabled = FALSE
  /\ trained = [s \in Symbols |-> FALSE]
  /\ signal_history = [s \in Symbols |-> <<>>]
  /\ positions = <<>>
  /\ predictor = PricePredictor
  /\ calls = 0
  /\ predictors = <<>>
  /\ requests = <<>>
  /\ last = NoStep

\* predictor.load_model(filepath)
LoadModel(a) ==
  /\ ~predictor.is_trained
  /\ predictor' = load_model(predictor, a)
  /\ last' = [NoStep EXCEPT !.op = "load"]
  /\ UNCHANGED <<storeVars, min_signal_strength, pc, idx, cycles, trading_status,
                 auto_trading_enabled, trained, signal_history, positions, calls,
                 predictors, requests>>

\* predictor.predict(df)
Predict ==
  /\ \E w \in Windows, infer \in InferOutcomes :
       \E out \in (IF infer = "ok" THEN PredInputs ELSE {NoPrediction}) :
         LET r == predict(predictor, w, infer, out)
         IN /\ predictor' = r.predictor
            /\ last' = [NoStep EXCEPT !.op = "predict", !.raised = r.raised,
                                      !.pred = r.pred, !.window = w]
  /\ UNCHANGED <<storeVars, min_signal_strength, pc, idx, cycles, trading_status,
                 auto_trading_enabled, trained, signal_history, positions, calls,
                 predictors, requests>>

PredictorNext == (\E a \in Artifacts : LoadModel(a)) \/ Predict

PredictorSpec == PredictorInit /\ [][PredictorNext]_vars

(***************************************************************************)
(* The bot with a control surface that takes RunState away from running    *)
(* once, while a cycle is in flight and before the cycle has processed its *)
(* first instrument.                                                       *)
(***************************************************************************)
LatencyInit ==
  /\ statusKey = "running"
  /\ settingsKey = [kind |-> "json", auto |-> "true", leverage |-> 10]
  /\ min_signal_strength = 30000
  /\ pc = "init"
  /\ idx = 0
  /\ cycles = 0
  /\ trading_status = "none"
  /\ auto_trading_enabled = FALSE
  /\ trained = [s \in Symbols |-> FALSE]
  /\ signal_history = [s \in Symbols |-> <<>>]
  /\ positions = <<>>
  /\ predictor = PricePredictor
  /\ calls = 0
  /\ predictors = <<>>
  /\ requests = <<>>
  /\ last = NoStep

\* stop_trading, pause_trading or emergency_stop, requested in mid-cycle
StopDuringCycle ==
  /\ pc = "cycle"
  /\ idx = 1
  /\ statusKey = "running"
  /\ \E s \in StatusValues \ {"running"} : SetTradingStatus(s)

LatencyNext ==
  \/ StopDuringCycle
  \/ \E s \in Symbols : TrainModel(s)
  \/ Initialize
  \/ LoopTop
  \/ ProcessSymbol

LatencySpec == LatencyInit /\ [][LatencyNext]_vars

(***************************************************************************)
(* The bot as main() wires it, started with model files in the models      *)
(* directory, RunState running and auto trading enabled.                   *)
(***************************************************************************)
\* the model file of an instrument: a bundle save_model wrote for a
\* gradient-boosting model
ModelFile == Bundle(DefaultFeatureColumns, "gradient_boosting")

WiringInit ==
  /\ statusKey = "running"
  /\ settingsKey = [kind |-> "json", auto |-> "true", leverage |-> 10]
  /\ min_signal_strength = 30000
  /\ pc = "init"
  /\ idx = 0
  /\ cycles = 0
  /\ trading_status = "none"
  /\ auto_trading_enabled = FALSE
  /\ trained = [s \in Symbols |-> FALSE]
  /\ signal_history = [s \in Symbols |-> <<>>]
  /\ positions = <<>>
  /\ predictor = PricePredictor
  /\ calls = 0
  /\ predictors = <<>>
  /\ requests = <<>>
  /\ last = NoStep

\* initialize() with _initialize_components: files are the instruments
\* whose model file exists; their predictors are loaded into bot.predictors
\* and the strategies are constructed without one
InitializeComponents ==
  /\ pc = "init"
  /\ \E ok \in BOOLEAN, files \in SUBSET Symbols :
       /\ pc' = IF ok THEN "top" ELSE "failed"
       /\ predictors' = IF ok
                        THEN [s \in files |-> load_model(PricePredictor, ModelFile)]
                        ELSE predictors
  /\ last' = [NoStep EXCEPT !.op = "initialize"]
  /\ UNCHANGED <<storeVars, min_signal_strength, idx, cycles, trading_status,
                 auto_trading_enabled, trained, signal_history, positions,
                 predictor, calls, requests>>

WiringNext ==
  \/ InitializeComponents
  \/ LoopTop
  \/ ProcessSymbol

WiringSpec == WiringInit /\ [][WiringNext]_vars

(***************************************************************************)
(* Two callers of update_trading_settings, each in its own worker process  *)
(* of the control surface: a call is a read of trading:settings followed   *)
(* by a write of the whole record, and the store serves the reads and      *)
(* writes of the two calls in any order.                                   *)
(***************************************************************************)
Callers == {"a", "b"}
\* the settings dict of a call: the auto_trading entry and the leverage
\* entry, "keep" and 0 standing for an entry the dict does not have
SettingsUpdates ==
  {[auto |-> "false", leverage |-> 0], [auto |-> "true", leverage |-> 0],
   [auto |-> "keep", leverage |-> 20], [auto |-> "keep", leverage |-> 5]}

\* current_settings.update(settings)
dict_update(current, settings) ==
  [current EXCEPT
     !.auto = IF settings.auto = "keep" THEN current.auto ELSE settings.auto,
     !.leverage = IF settings.leverage = 0 THEN current.leverage
                  ELSE settings.leverage]

SettingsInit ==
  /\ statusKey = "running"
  /\ settingsKey \in SettingsRaw
  /\ min_signal_strength = 30000
  /\ pc = "init"
  /\ idx = 0
  /\ cycles = 0
  /\ trading_status = "none"
  /\ auto_trading_enabled = FALSE
  /\ trained = [s \in Symbols |-> FALSE]
  /\ signal_history = [s \in Symbols |-> <<>>]
  /\ positions = <<>>
  /\ predictor = PricePredictor
  /\ calls = 0
  /\ predictors = <<>>
  /\ \E u \in [Callers -> SettingsUpdates] :
       requests = [r \in Callers |->
                     [pc |-> "called", settings |-> u[r],
                      current_settings |-> DefaultSettings]]
  /\ last = NoStep

\* update_trading_settings, first half: get_trading_settings reads the key
\* (and stores the default record where the key is missing)
ReadSettings(r) ==
  /\ requests[r].pc = "called"
  /\ settingsKey' = get_trading_settings(settingsKey)
  /\ requests' = [requests EXCEPT
                    ![r].pc = "read",
                    ![r].current_settings = get_trading_settings(settingsKey)]
  /\ UNCHANGED <<statusKey, min_signal_strength, pc, idx, cycles, trading_status,
                 auto_trading_enabled, trained, signal_history, positions,
                 predictor, calls, predictors, last>>

\* update_trading_settings, second half: the record read is updated and
\* written back
WriteSettings(r) ==
  /\ requests[r].pc = "read"
  /\ settingsKey' = dict_update(requests[r].current_settings, requests[r].settings)
  /\ requests' = [requests EXCEPT ![r].pc = "done"]
  /\ UNCHANGED <<statusKey, min_signal_strength, pc, idx, cycles, trading_status,
                 auto_trading_enabled, trained, signal_history, positions,
                 predictor, calls, predictors, last>>

SettingsNext == \E r \in Callers : ReadSettings(r) \/ WriteSettings(r)

SettingsSpec == SettingsInit /\ [][SettingsNext]_vars

(***************************************************************************)
(* Steps of the bot, as seen on a pair of states.                          *)
(***************************************************************************)
\* the step is one pass of the for-loop body of run()
ProcessStep == pc = "cycle" /\ (pc' # pc \/ idx' # idx)
\* the step leaves the record of a top-of-iteration read
TopStep == pc = "top" /\ last'.op = "top"
\* the orders of a step that are bracket legs
IsBracket(o) == o.kind \in {"stop_loss", "take_profit"}

(***************************************************************************)
(* C1. Single position: the tracker never holds two Positions for one      *)
(* instrument, and a call of _execute_trade for an instrument that is      *)
(* already tracked submits no order, leaves the tracker as it is and       *)
(* raises nothing (the loop goes on to the next instrument).               *)
(***************************************************************************)
C1_AtMostOne ==
  \A i, j \in 1..Len(positions) :
    positions[i].symbol = positions[j].symbol => i = j

C1_SinglePosition ==
  /\ [](C1_AtMostOne)
  /\ [][(ProcessStep /\ last'.called /\ HasPosition(positions, symbols[idx]))
          => /\ positions' = positions
             /\ last'.orders = <<>>
             /\ ~last'.raised
             /\ idx' = idx + 1]_vars

C1_Witness ==
  /\ last.op = "process"
  /\ last.called
  /\ last.hadPosition
  /\ HasPosition(positions, last.sym)

(***************************************************************************)
(* C2. Emergency stop closes everything: after an iteration that read      *)
(* emergency_stopped, a close order has been submitted for every tracked   *)
(* Position and the tracker is empty.                                      *)
(***************************************************************************)
C2_EmergencyClosesAll ==
  (last.op = "top" /\ last.status = "emergency_stopped") => Len(positions) = 0

(***************************************************************************)
(* C3. Emergency stop is terminal: once an iteration has read              *)
(* emergency_stopped the loop never starts a trading cycle again, whatever *)
(* the control surface writes afterwards.                                  *)
(***************************************************************************)
C3_EmergencyTerminal ==
  [][(last.op = "top" /\ last.status = "emergency_stopped") => pc' # "cycle"]_vars

(***************************************************************************)
(* C4. An iteration that reads stopped or paused does no trading work: it  *)
(* fetches nothing, appends no Decision, submits no order, and the loop is *)
(* back at the top of the next iteration.                                  *)
(***************************************************************************)
C4_WaitDoesNothing ==
  [][(TopStep /\ last'.status \in {"stopped", "paused"})
       => /\ pc' = "top"
          /\ signal_history' = signal_history
          /\ positions' = positions
          /\ last'.fetch = "none"
          /\ last'.orders = <<>>
          /\ cycles' = cycles]_vars

C4_Witness ==
  /\ pc = "top"
  /\ last.op = "top"
  /\ last.statusRead
  /\ last.status = "paused"
  /\ cycles > 0

(***************************************************************************)
(* C5. Entry gate: a pass of the loop body submits an order only if the    *)
(* Decision is BUY or SELL, its strength is strictly above                 *)
(* min_signal_strength, auto trading was read as enabled for the cycle and *)
(* the instrument had no tracked Position; the order is then the entry.    *)
(***************************************************************************)
C5_EntryGate ==
  [][(ProcessStep /\ last'.orders # <<>>)
       => /\ last'.signal \in {"BUY", "SELL"}
          /\ last'.strength > min_signal_strength
          /\ auto_trading_enabled
          /\ ~HasPosition(positions, symbols[idx])
          /\ last'.orders[1].kind = "entry"
          /\ \A k \in 1..Len(last'.orders) :
               last'.orders[k].instId = symbols[idx]]_vars

C5_Witness ==
  /\ last.op = "process"
  /\ last.orders # <<>>
  /\ last.orders[1].kind = "entry"
  /\ last.strength > min_signal_strength
  /\ min_signal_strength = 76000

(***************************************************************************)
(* C6. Per-instrument error isolation: a RUNNING cycle ends only after the *)
(* last configured instrument, whatever failed for the instruments before  *)
(* it.                                                                     *)
(***************************************************************************)
C6_ErrorIsolation ==
  (pc = "top" /\ last.op = "process") => last.sym = symbols[NumSymbols]

(***************************************************************************)
(* C7. Fail-safe RunState: when the read of trading:status fails (store    *)
(* unreachable, key missing, value unparsable) the iteration is handled as *)
(* stopped: no cycle starts, nothing is appended, no order is submitted.   *)
(***************************************************************************)
C7_FailSafeStatus ==
  [][(TopStep /\ ~last'.statusRead)
       => /\ last'.status = "stopped"
          /\ trading_status' = "stopped"
          /\ pc' = "top"
          /\ cycles' = cycles
          /\ signal_history' = signal_history
          /\ positions' = positions
          /\ last'.orders = <<>>]_vars

C7_Witness ==
  /\ pc = "top"
  /\ last.op = "top"
  /\ ~last.statusRead
  /\ statusKey = "running"

(***************************************************************************)
(* C8. Entry before bracket: every stop-loss or take-profit order of a     *)
(* step comes after an entry order of the same step, for the same          *)
(* instrument, that the exchange acknowledged; and after an entry that was *)
(* rejected or failed, the step has submitted nothing else and the         *)
(* instrument is not tracked.                                              *)
(***************************************************************************)
C8_EntryBeforeBracket ==
  /\ \A k \in 1..Len(last.orders) :
       IsBracket(last.orders[k])
         => \E j \in 1..(k - 1) :
              /\ last.orders[j].kind = "entry"
              /\ last.orders[j].res = "ok"
              /\ last.orders[j].instId = last.orders[k].instId
  /\ \A k \in 1..Len(last.orders) :
       (last.orders[k].kind = "entry" /\ last.orders[k].res \in {"rejected", "raise"})
         => /\ Len(last.orders) = 1
            /\ ~HasPosition(positions, last.orders[k].instId)

C8_Witness ==
  /\ last.op = "process"
  /\ Len(last.orders) = 3
  /\ last.orders[1].kind = "entry"
  /\ last.orders[1].res = "ok"
  /\ last.orders[2].kind = "stop_loss"
  /\ last.orders[3].kind = "take_profit"

(***************************************************************************)
(* C9. A bracket leg that fails after an acknowledged entry does not       *)
(* unwind the entry: the Position is tracked with the price and quantity   *)
(* of the entry, the step has submitted no close order, and nothing was    *)
(* raised into the loop.                                                   *)
(***************************************************************************)
BracketFailed(orders) ==
  \E k \in 1..Len(orders) : IsBracket(orders[k]) /\ orders[k].res # "ok"

C9_NoUnwind ==
  (last.op = "process" /\ BracketFailed(last.orders))
    => /\ HasPosition(positions, last.sym)
       /\ PositionOf(positions, last.sym).entry_price = last.price
       /\ PositionOf(positions, last.sym).quantity = last.orders[1].sz
       /\ PositionOf(positions, last.sym).side = last.orders[1].side
       /\ \A k \in 1..Len(last.orders) : last.orders[k].kind # "close"
       /\ ~last.raised

C9_Witness ==
  /\ last.op = "process"
  /\ Len(last.orders) = 2
  /\ last.orders[2].kind = "stop_loss"
  /\ last.orders[2].res = "raise"
  /\ HasPosition(positions, last.sym)

(***************************************************************************)
(* C10. Position lifecycle: closing submits, for each tracked Position, a  *)
(* market order on the opposite side for the tracked quantity, and then    *)
(* the Position is no longer tracked, whatever the exchange answered.      *)
(***************************************************************************)
C10_CloseRemoves ==
  last.op = "stop"
    => /\ Len(last.orders) > 0 =>
            \A k \in 1..Len(last.orders) :
              /\ last.orders[k].kind = "close"
              /\ last.orders[k].ordType = "market"
       /\ \A s \in Symbols : ~HasPosition(positions, s)

(***************************************************************************)
(* Reading of a strategy call: the entry before the one a history ends     *)
(* with.                                                                   *)
(***************************************************************************)
\* the entry a history ends with; EMPTY stands for a history without entries
LastEntry(h) ==
  IF Len(h) = 0 THEN [signal |-> "EMPTY", strength |-> 0] ELSE h[Len(h)]

(***************************************************************************)
(* C11. Without a trained predictor (prediction 0, confidence 0) a         *)
(* strategy still trades on its technical signals: when their weighted     *)
(* score is beyond the threshold of 0.3 and the strength, decayed or not,  *)
(* is at least 0.4 (as for ema_signal = rsi_signal = 1, score 0.5), the    *)
(* Decision returned is BUY for a positive score and SELL for a negative   *)
(* one.                                                                    *)
(***************************************************************************)
C11_TechnicalOnly ==
  (/\ last.op = "fusion"
   /\ ~trained[last.sym]
   /\ last.pred = NoPrediction
   /\ Abs(last.combined) > 300
   /\ Abs(last.combined) * 95 >= 40000)
    => last.signal = (IF last.combined > 0 THEN "BUY" ELSE "SELL")

(***************************************************************************)
(* C12. The threshold is strict: combine_signals gives BUY exactly when    *)
(* the combined score is above 0.3 and SELL exactly when it is below -0.3; *)
(* a score of exactly 0.3 or -0.3 gives NONE with strength 0, also as the  *)
(* returned Decision; and the strength of a BUY or SELL is                 *)
(* min(|score|, 1.0), times 0.95 when decayed.  Scores are in units of     *)
(* 0.001, strengths in units of 0.00001.                                   *)
(***************************************************************************)
C12_StrictThreshold ==
  last.op = "fusion"
    => /\ last.raw.signal = "BUY" <=> last.combined > 300
       /\ last.raw.signal = "SELL" <=> last.combined < -300
       /\ last.combined \in {300, -300}
            => /\ last.raw = [signal |-> "NONE", strength |-> 0]
               /\ last.signal = "NONE"
               /\ last.strength = 0
       /\ last.raw.signal # "NONE"
            => \/ last.raw.strength = Min(Abs(last.combined), 1000) * 100
               \/ last.raw.strength = Min(Abs(last.combined), 1000) * 95

C12_Witness ==
  /\ last.op = "fusion"
  /\ last.combined = 300
  /\ last.raw.signal = "NONE"
  /\ last.tech.ema_signal = 1

(***************************************************************************)
(* C13. Decay: the strength combine_signals gives a BUY or SELL is         *)
(* min(|score|, 1.0) times 0.95 when the Decision returned by the call     *)
(* before it, for the same strategy, had the same signal, and              *)
(* min(|score|, 1.0) undecayed when that Decision had the other signal or  *)
(* NONE.                                                                   *)
(***************************************************************************)
C13_Decay ==
  (last.op = "fusion" /\ last.raw.signal # "NONE" /\ last.prev # "unknown")
    => last.raw.strength =
         Min(Abs(last.combined), 1000) *
           (IF last.prev = last.raw.signal THEN 95 ELSE 100)

(***************************************************************************)
(* C14. Post-filters: a Decision returned as BUY or SELL has a strength of *)
(* at least 0.4 and a prediction of at least 0.001 in absolute value; and  *)
(* whenever the strength after decay is below 0.4, or the prediction is    *)
(* below 0.001 in absolute value, the Decision returned is NONE with       *)
(* strength exactly 0.  Predictions are in units of 0.0001.                *)
(***************************************************************************)
C14_PostFilters ==
  last.op = "fusion"
    => /\ last.signal \in {"BUY", "SELL"}
            => /\ last.strength >= 40000
               /\ Abs(last.pred.value) >= 10
       /\ (last.raw.strength < 40000 \/ Abs(last.pred.value) < 10)
            => /\ last.signal = "NONE"
               /\ last.strength = 0

C14_Witness ==
  /\ last.op = "fusion"
  /\ last.raw = [signal |-> "BUY", strength |-> 38000]
  /\ Abs(last.pred.value) >= 10
  /\ last.signal = "NONE"

(***************************************************************************)
(* C15. Bounded history: a history never holds more than 100 entries, and  *)
(* a call for a strategy appends exactly the entry it computed, after      *)
(* evicting the oldest entry when the history was full, and touches no     *)
(* other strategy's history; so a history is always its most recent        *)
(* min(n, 100) entries in call order.                                      *)
(***************************************************************************)
C15_BoundedHistory ==
  /\ [](\A s \in Symbols : Len(signal_history[s]) <= 100)
  /\ [][calls' = calls + 1
          => \A s \in Symbols :
               LET h == signal_history[s]
                   entry == [signal |-> last'.raw.signal,
                             strength |-> last'.raw.strength]
               IN signal_history'[s] =
                    (IF s # last'.sym THEN h
                     ELSE IF Len(h) < 100 THEN Append(h, entry)
                     ELSE Append(Tail(h), entry))]_vars

C15_Witness ==
  \E s \in Symbols :
    /\ Len(signal_history[s]) = 100
    /\ signal_history[s][100].signal = "SELL"
    /\ signal_history[s][99].signal = "BUY"
    /\ signal_history[s][98].signal = "BUY"
    /\ signal_history[s][97].signal = "NONE"

(***************************************************************************)
(* C16. Determinism: two strategies whose histories end with the same      *)
(* entry, or are both empty, return the same signal and strength for the   *)
(* same technical signals, prediction and confidence, however the          *)
(* histories differ before their last entry.                               *)
(***************************************************************************)
C16_Deterministic ==
  \A i, j \in 1..NumSymbols :
    LET s1 == symbols[i]
        s2 == symbols[j]
    IN (i < j /\ LastEntry(signal_history[s1]) = LastEntry(signal_history[s2]))
      => \A ts \in FusionTech, out \in FusionPreds \cup {NoPrediction} :
           LET g1 == generate_signal(signal_history[s1], ts, TRUE, out)
               g2 == generate_signal(signal_history[s2], ts, TRUE, out)
           IN /\ g1.signal = g2.signal
              /\ g1.strength = g2.strength

C16_Witness ==
  \E s1, s2 \in Symbols :
    /\ Len(signal_history[s1]) = 2
    /\ Len(signal_history[s2]) = 1
    /\ signal_history[s1][1].signal = "SELL"
    /\ signal_history[s1][2].signal = "BUY"
    /\ signal_history[s2][1] = signal_history[s1][2]

(***************************************************************************)
(* C17. predict never raises to its caller: whatever the window (with an   *)
(* open_time column or, as the control loop supplies it, a timestamp       *)
(* column), whether or not a model was loaded, whatever expected features  *)
(* are missing and whatever fails inside, the call returns a pair.         *)
(***************************************************************************)
C17_PredictNeverRaises ==
  last.op = "predict" => ~last.raised

(***************************************************************************)
(* C18. predict leaves the loaded artifact unchanged: after any calls of   *)
(* predict the predictor's scaler and ordered feature list are those       *)
(* load_model read from the model file.                                    *)
(***************************************************************************)
C18_ArtifactUnchanged ==
  predictor.is_trained
    => /\ predictor.feature_columns = predictor.artifact.feature_columns
       /\ predictor = load_model(PricePredictor, predictor.artifact)

(***************************************************************************)
(* C19. Configuration is validated at start-up: with a min_signal_strength *)
(* that is no fraction in (0, 1] the bot is not initialized, so that its   *)
(* loop never reads the store, starts a cycle or submits an order.         *)
(* Strengths are in units of 0.00001.                                      *)
(***************************************************************************)
C19_ConfigValidated ==
  (min_signal_strength <= 0 \/ min_signal_strength > 100000)
    => /\ pc \in {"init", "failed"}
       /\ last.op \in {"none", "initialize"}

(***************************************************************************)
(* C20. Stop latency: once the control surface has taken RunState away     *)
(* from running while a cycle is in flight, the loop processes at most one *)
(* further instrument.  The change is made before the first instrument of  *)
(* the cycle is processed, so that only this first instrument may still be *)
(* processed after it.                                                     *)
(***************************************************************************)
C20_StopLatency ==
  [][(ProcessStep /\ statusKey # "running") => idx = 1]_vars

(***************************************************************************)
(* Reading of a step's log: the event that reports an order of a kind as   *)
(* placed.                                                                 *)
(***************************************************************************)
PlacedEvent(kind) ==
  CASE kind = "entry" -> "entry_placed"
    [] kind = "stop_loss" -> "stop_loss_placed"
    [] kind = "take_profit" -> "take_profit_placed"
    [] OTHER -> "none"

(***************************************************************************)
(* C21. No silent drops: for every entry, stop-loss or take-profit order   *)
(* of a step that the exchange answered with a non-success code, the step  *)
(* has logged a failure that names the instrument, and has not logged the  *)
(* order as placed.                                                        *)
(***************************************************************************)
C21_NoSilentDrops ==
  last.op = "process"
    => \A k \in 1..Len(last.orders) :
         last.orders[k].res = "rejected"
           => /\ \E i \in 1..Len(last.logs) :
                   /\ last.logs[i].level = "error"
                   /\ last.logs[i].sym = last.orders[k].instId
              /\ \A i \in 1..Len(last.logs) :
                   last.logs[i].event # PlacedEvent(last.orders[k].kind)

(***************************************************************************)
(* C22. A window with fewer than 21 usable bars (bars left once the rows   *)
(* with a field that is no number are dropped) gives the six technical     *)
(* signals ema, rsi, bb, macd, volume and momentum all 0, and nothing is   *)
(* raised.                                                                 *)
(***************************************************************************)
C22_ShortWindowZero ==
  (last.op = "features" /\ Len(SelectSeq(last.bars, IsNumeric)) < 21)
    => /\ \A k \in SignalNames : last.tech[k] = 0
       /\ ~last.raised

C22_Witness ==
  /\ last.op = "features"
  /\ Len(last.bars) = 22
  /\ Len(SelectSeq(last.bars, IsNumeric)) = 20
  /\ last.bars[1].close # last.bars[2].close
  /\ \A k \in SignalNames : last.tech[k] = 0

(***************************************************************************)
(* C23. Flat market: a window of 50 bars with one close and one volume     *)
(* gives all six technical signals 0 (bb_signal too, although the close    *)
(* lies on both Bollinger bands, and rsi_signal too), so that without a    *)
(* prediction (confidence 0) the combined score is 0 and the Decision is   *)
(* NONE.                                                                   *)
(***************************************************************************)
C23_FlatMarket ==
  (/\ last.op = "features"
   /\ Len(last.bars) = 50
   /\ \A i \in 1..50 : /\ last.bars[i].numeric
                       /\ last.bars[i].close = last.bars[1].close
                       /\ last.bars[i].volume = last.bars[1].volume
   /\ last.pred.conf = 0)
    => /\ \A k \in SignalNames : last.tech[k] = 0
       /\ last.combined = 0
       /\ last.signal = "NONE"

(***************************************************************************)
(* C24. The history records the Decision that is returned: after a call,   *)
(* the newest entry of the strategy's history holds the signal and the     *)
(* strength generate_signal returned, so that a Decision a post-filter     *)
(* suppressed is stored as NONE with strength 0.                           *)
(***************************************************************************)
C24_HistoryHoldsDecision ==
  last.op = "fusion"
    => /\ LastEntry(signal_history[last.sym]).signal = last.signal
       /\ LastEntry(signal_history[last.sym]).strength = last.strength

(***************************************************************************)
(* C26. Bracket legs are attempted independently: a step whose stop-loss   *)
(* order failed with an exception has still submitted the take-profit      *)
(* order for the same instrument.                                          *)
(***************************************************************************)
C26_LegsIndependent ==
  \A k \in 1..Len(last.orders) :
    (last.orders[k].kind = "stop_loss" /\ last.orders[k].res = "raise")
      => \E j \in 1..Len(last.orders) :
           /\ last.orders[j].kind = "take_profit"
           /\ last.orders[j].instId = last.orders[k].instId

(***************************************************************************)
(* C27. Every entry order the exchange acknowledged as successful, with    *)
(* or without an order listed in its answer, leaves the instrument         *)
(* tracked; hence no step submits an entry order for an instrument for     *)
(* which an earlier entry order was acknowledged.                          *)
(***************************************************************************)
C27_AckedEntryTracked ==
  \A k \in 1..Len(last.orders) :
    (last.orders[k].kind = "entry" /\ last.orders[k].res \in {"ok", "ok_nodata"})
      => HasPosition(positions, last.orders[k].instId)

(***************************************************************************)
(* C28. Every entry order submitted has a strictly positive quantity: with *)
(* a balance of 0 no entry order is submitted and no Position is recorded. *)
(***************************************************************************)
C28_PositiveQuantity ==
  /\ \A k \in 1..Len(last.orders) :
       last.orders[k].kind = "entry" => last.orders[k].sz > 0
  /\ \A i \in 1..Len(positions) : positions[i].quantity > 0

(***************************************************************************)
(* C25. A loaded artifact is consumed: when the model file of an           *)
(* instrument was loaded at start-up, and its model answers 0.01 with      *)
(* confidence 0.8, a pass of the loop body that fetched the bars (whose    *)
(* technical signals are all 0) and ran the strategy to its end has the    *)
(* Decision BUY (combined score 0.8), not the neutral outcome.             *)
(***************************************************************************)
C25_ArtifactConsumed ==
  (/\ last.op = "process"
   /\ last.fetch = "ok"
   /\ last.gen = "ok"
   /\ last.sym \in DOMAIN predictors
   /\ predictors[last.sym].is_trained)
    => last.signal = "BUY"

(***************************************************************************)
(* C29. No settings update is lost: when a call that sets auto_trading to  *)
(* false and a call that changes only the leverage have both completed,    *)
(* in whatever order the store served them, the stored settings hold both  *)
(* changes; in particular auto_trading is false, which is what the loop    *)
(* reads at the top of its next cycle.                                     *)
(***************************************************************************)
C29_NoLostUpdate ==
  \A a, b \in DOMAIN requests :
    (/\ requests[a].pc = "done"
     /\ requests[b].pc = "done"
     /\ requests[a].settings = [auto |-> "false", leverage |-> 0]
     /\ requests[b].settings.auto = "keep")
      => /\ settingsKey.auto = "false"
         /\ settingsKey.leverage = requests[b].settings.leverage
         /\ ~get_auto_trading_status(TRUE, settingsKey)

(***************************************************************************)
(* C30. The auto_trading flag is read once, at the top of an iteration:    *)
(* it is the stored value when the settings could be read and hold the     *)
(* key, and enabled otherwise; the passes of the loop body do not read it  *)
(* again, so that an eligible Decision for an untracked instrument leads   *)
(* to an entry order exactly when the flag read at the top is enabled,     *)
(* whatever the store holds by then.                                       *)
(***************************************************************************)
C30_AutoTradingReadOnce ==
  /\ [][(TopStep /\ settingsKey' = settingsKey /\ statusKey' = statusKey)
          => auto_trading_enabled' =
               (IF last'.autoRead THEN settingsKey.auto = "true" ELSE TRUE)]_vars
  /\ [][ProcessStep
          => /\ auto_trading_enabled' = auto_trading_enabled
             /\ (/\ last'.fetch = "ok"
                 /\ last'.signal # "NONE"
                 /\ last'.strength > min_signal_strength
                 /\ ~HasPosition(positions, symbols[idx]))
                  => (auto_trading_enabled
                        <=> (last'.orders # <<>> /\ last'.orders[1].kind = "entry"))]_vars

C30_Witness ==
  /\ last.op = "process"
  /\ last.orders # <<>>
  /\ last.orders[1].kind = "entry"
  /\ settingsKey.kind = "json"
  /\ settingsKey.auto = "false"
  /\ auto_trading_enabled

====
